---- MODULE Spec2Model ----
(***************************************************************************)
(* Model of rust-random-logo: the sigma-factor IFS sampler (core/ifs.rs),  *)
(* the point generator, normaliser and rasteriser (core/renderer.rs) and   *)
(* the two ways an image is produced: render_from_config, and the          *)
(* seed / rand_sigma_factor_ifs / render sequence of the integration test. *)
(*                                                                         *)
(* Arithmetic.  An f64 is modelled as an exact rational <<num, den>> with  *)
(* den > 0 in lowest terms; den = 0 encodes the non-finite values          *)
(* (<<0,0>> not-a-number, <<1,0>> +infinity, <<-1,0>> -infinity).          *)
(* Rounding of f64 operations is modelled where sample_svs is run in       *)
(* floating point (SpecSvsF64): there every operation of sample_svs gives  *)
(* the nearest value with MantBits bits of mantissa, ties to even, the     *)
(* exponent unbounded.  Everywhere else the operations are exact.          *)
(*                                                                         *)
(* Random stream.  The rand / rand_xoshiro crates are not part of the      *)
(* repository; the seeded stream is a deterministic generator whose state  *)
(* is a function of the seed, and every call of the rand API advances it   *)
(* once.  A unit-interval draw takes one of FloatLevels equally spaced     *)
(* values.  Angles are measured in quarter turns and the rotation matrix   *)
(* is taken at the angle rounded down to a whole quarter turn, so that cos *)
(* and sin stay rational.  sample_svs is also run on its own, on a stream  *)
(* about which nothing is assumed (FreeRng): every draw is then any of     *)
(* SvsLevels equally spaced values.  SigmaFactorIFS::new is also run on    *)
(* its own (SpecNew), on any two vectors of at most MaxLen elements.       *)
(***************************************************************************)
EXTENDS Integers, Sequences, FiniteSets, TLC

VARIABLES
    cfg,        \* the Config under render
    phase,      \* "direct": the test's own seed / ifs / render; "config":
                \* render_from_config; "svs": sample_svs called on its own;
                \* "svs_f64": the same in floating point;
                \* "new": SigmaFactorIFS::new called on its own
    pc,         \* position in the code
    rng,        \* the random stream: [s |-> state, n |-> values drawn]
    svN,        \* rand_sigma_factor_ifs and sample_svs: n
    svAlpha,    \* rand_sigma_factor_ifs: sigma_factor; sample_svs: alpha
    svBLower,   \* sample_svs: b_lower
    svBUpper,   \* sample_svs: b_upper
    svResult,   \* sample_svs: result; rand_sigma_factor_ifs: singular_values
    svNonEmpty, \* history: every interval sample_svs drew from had lower <= upper
    transforms, \* rand_sigma_factor_ifs: transforms; SigmaFactorIFS::new: transforms
    weights,    \* rand_sigma_factor_ifs: weights; SigmaFactorIFS::new: weights
    ifs,        \* NoIfs or [panic, transforms, weights]
    point,      \* generate_points: point
    xs, ys,     \* generate_points and render: the point cloud
    img,        \* render: NoImg or [w, h, px]  (px: the pixels that are not zero)
    color,      \* render: color
    di,         \* render: points of the cloud the drawing loop has visited
    image1,     \* the test: the image of method 1
    result,     \* what render_from_config returned
    checked,    \* history: the validations render_from_config has completed
    drawLog,    \* history: the stage of every draw made on the stream
    selLog,     \* history: the map index chosen at every iteration
    rawLog      \* history: the points as pushed, before normalisation

callVars == <<cfg, phase>>
svsVars  == <<svN, svAlpha, svBLower, svBUpper, svResult, svNonEmpty>>
genVars  == <<point, xs, ys, selLog, rawLog>>
imgVars  == <<img, color, di>>
outVars  == <<image1, result, checked>>
vars     == <<cfg, phase, pc, rng, svN, svAlpha, svBLower, svBUpper, svResult,
              svNonEmpty, transforms, weights, ifs, point, xs, ys, img, color, di,
              image1, result, checked, drawLog, selLog, rawLog>>

----------------------------------------------------------------------------
(* Bounds of the model *)

FloatLevels == 3    \* values a unit-interval draw of the seeded stream takes
SvsLevels   == 3    \* values a unit-interval draw takes when sample_svs runs alone
MaxSeed     == 5    \* seeds 0..MaxSeed
MaxPoints   == 2    \* npoints 0..MaxPoints
U32Mod      == 16   \* stand-in for 2^32: the range of a u32
MantBits    == 6    \* sample_svs in floating point: bits of mantissa, the stand-in for the 53 of f64
MaxLen      == 3    \* SigmaFactorIFS::new on its own: at most MaxLen transforms, MaxLen weights

----------------------------------------------------------------------------
(* f64 as exact rationals *)

Abs(i) == IF i < 0 THEN -i ELSE i

RECURSIVE GCD(_, _)
GCD(a, b) == IF b = 0 THEN a ELSE GCD(b, a % b)

Norm(n, d) ==
    LET g == GCD(Abs(n), d) IN <<n \div g, d \div g>>

R(i)    == <<i, 1>>
Zero    == <<0, 1>>
One     == <<1, 1>>
Half    == <<1, 2>>
NaN     == <<0, 0>>
PosInf  == <<1, 0>>
NegInf  == <<-1, 0>>

IsFinite(a) == a[2] # 0
IsNaN(a)    == a = NaN
Sign(a)     == IF a[1] > 0 THEN 1 ELSE IF a[1] < 0 THEN -1 ELSE 0

Neg(a) == <<-a[1], a[2]>>

Add(a, b) ==
    IF IsFinite(a) /\ IsFinite(b)
    THEN LET g == GCD(a[2], b[2])
             l == (a[2] \div g) * b[2]
         IN  Norm(a[1] * (l \div a[2]) + b[1] * (l \div b[2]), l)
    ELSE IF IsNaN(a) \/ IsNaN(b) THEN NaN
    ELSE IF IsFinite(a) THEN b
    ELSE IF IsFinite(b) THEN a
    ELSE IF a = b THEN a ELSE NaN

Sub(a, b) == Add(a, Neg(b))

Mul(a, b) ==
    IF IsFinite(a) /\ IsFinite(b)
    THEN LET g1 == GCD(Abs(a[1]), b[2])
             g2 == GCD(Abs(b[1]), a[2])
         IN  <<(a[1] \div g1) * (b[1] \div g2), (a[2] \div g2) * (b[2] \div g1)>>
    ELSE IF IsNaN(a) \/ IsNaN(b) \/ Sign(a) = 0 \/ Sign(b) = 0 THEN NaN
    ELSE <<Sign(a) * Sign(b), 0>>

Div(a, b) ==
    IF IsNaN(a) \/ IsNaN(b) THEN NaN
    ELSE IF ~IsFinite(a) THEN (IF IsFinite(b)
                               THEN <<Sign(a) * (IF Sign(b) < 0 THEN -1 ELSE 1), 0>>
                               ELSE NaN)
    ELSE IF ~IsFinite(b) THEN Zero
    ELSE IF Sign(b) = 0 THEN (IF Sign(a) = 0 THEN NaN ELSE <<Sign(a), 0>>)
    ELSE Mul(a, IF b[1] > 0 THEN <<b[2], b[1]>> ELSE <<-b[2], -b[1]>>)

\* a <= b, false when either is not-a-number
Le(a, b) ==
    IF IsNaN(a) \/ IsNaN(b) THEN FALSE
    ELSE IF ~IsFinite(a) THEN (a = NegInf \/ a = b)
    ELSE IF ~IsFinite(b) THEN b = PosInf
    ELSE LET g == GCD(a[2], b[2])
         IN  a[1] * (b[2] \div g) <= b[1] * (a[2] \div g)

Lt(a, b) == Le(a, b) /\ a # b

\* f64::min and f64::max: the other operand when one is not-a-number
fmin(a, b) == IF IsNaN(a) THEN b ELSE IF IsNaN(b) THEN a ELSE IF Le(a, b) THEN a ELSE b
fmax(a, b) == IF IsNaN(a) THEN b ELSE IF IsNaN(b) THEN a ELSE IF Le(a, b) THEN b ELSE a

fabs(a) == IF a[1] < 0 THEN Neg(a) ELSE a

\* f64::trunc of a finite value, as an integer
TruncInt(a) == IF a[1] >= 0 THEN a[1] \div a[2] ELSE -((-a[1]) \div a[2])

\* `f64 as u32`: truncates toward zero, saturates, not-a-number gives 0
F64AsU32(a) ==
    IF IsNaN(a) THEN 0
    ELSE IF ~IsFinite(a) THEN (IF a = PosInf THEN U32Mod - 1 ELSE 0)
    ELSE LET t == TruncInt(a)
         IN  IF t < 0 THEN 0 ELSE IF t > U32Mod - 1 THEN U32Mod - 1 ELSE t

\* `usize as u32`: keeps the low bits
UsizeAsU32(n) == n % U32Mod

RECURSIVE SumSeq(_)
SumSeq(s) == IF s = <<>> THEN Zero ELSE Add(s[1], SumSeq(Tail(s)))

----------------------------------------------------------------------------
(* f64 arithmetic.  Add, Sub, Mul and Div above are exact.  An operation of *)
(* the code gives the representable value nearest to the exact result, ties *)
(* to even: with MantBits bits of mantissa where sample_svs is run in       *)
(* floating point (phase "svs_f64"), and the exact result itself elsewhere. *)

RECURSIVE Pow2(_)
Pow2(k) == IF k = 0 THEN 1 ELSE 2 * Pow2(k - 1)

\* n/d * 2^e for n, d > 0, rounded to MantBits significant bits
RECURSIVE RoundMantissa(_, _, _)
RoundMantissa(n, d, e) ==
    IF n \div d < Pow2(MantBits - 1) THEN RoundMantissa(2 * n, d, e - 1)
    ELSE IF n \div d >= Pow2(MantBits) THEN RoundMantissa(n, 2 * d, e + 1)
    ELSE LET q == n \div d
             r == n % d
             m == IF 2 * r > d \/ (2 * r = d /\ q % 2 = 1) THEN q + 1 ELSE q
         IN  IF e >= 0 THEN <<m * Pow2(e), 1>> ELSE Norm(m, Pow2(-e))

Rounded(a) ==
    IF phase # "svs_f64" \/ ~IsFinite(a) \/ a[1] = 0 THEN a
    ELSE LET v == RoundMantissa(Abs(a[1]), a[2], 0)
         IN  IF a[1] < 0 THEN Neg(v) ELSE v

fadd(a, b) == Rounded(Add(a, b))
fsub(a, b) == Rounded(Sub(a, b))
fmul(a, b) == Rounded(Mul(a, b))
fdiv(a, b) == Rounded(Div(a, b))

----------------------------------------------------------------------------
(* core/utils.rs *)

uniform(u, a, b) == fadd(a, fmul(fsub(b, a), u))

----------------------------------------------------------------------------
(* core/ifs.rs: sample_svs, one draw at a time *)

Sigma1Lower(b_lower)          == fmax(Zero, fdiv(b_lower, R(3)))
Sigma1Upper(b_upper)          == fmin(One, b_upper)
Sigma2Lower(b_lower)          == fmax(Zero, fmul(Half, b_lower))
Sigma2Upper(sigma1, b_upper)  == fmin(sigma1, fmul(Half, b_upper))
LastSigma2Lower(b_upper)      == fmax(Zero, fmul(Half, fsub(b_upper, One)))
LastSigma2Upper_NoThird(b_upper) == b_upper
LastSigma2Upper(b_upper)      == fdiv(b_upper, R(3))

SvsInitLower(alpha, n) == fadd(fsub(alpha, fmul(R(3), R(n))), R(3))

\* one iteration of the loop over the first n-1 pairs
SvsPair(b_lower, b_upper, u1, u2) ==
    LET sigma1 == uniform(u1, Sigma1Lower(b_lower), Sigma1Upper(b_upper))
        bl1    == fsub(b_lower, sigma1)
        bu1    == fsub(b_upper, sigma1)
        sigma2 == uniform(u2, Sigma2Lower(bl1), Sigma2Upper(sigma1, bu1))
    IN  [sigma1  |-> sigma1,
         sigma2  |-> sigma2,
         b_lower |-> fadd(fsub(bl1, fmul(R(2), sigma2)), R(3)),
         b_upper |-> fsub(bu1, fmul(R(2), sigma2))]

\* the last pair with sigma1 = b_upper - sigma2
SvsLast_SingleSigma2(b_upper, u) ==
    LET sigma2 == uniform(u, LastSigma2Lower(b_upper), LastSigma2Upper(b_upper))
        sigma1 == fsub(b_upper, sigma2)
    IN  <<sigma1, sigma2>>

\* the last pair
SvsLast(b_upper, u) ==
    LET sigma2 == uniform(u, LastSigma2Lower(b_upper), LastSigma2Upper(b_upper))
        sigma1 == fsub(b_upper, fmul(R(2), sigma2))
    IN  <<sigma1, sigma2>>

AlphaLower(n) == fmul(Half, R(5 + n))
AlphaUpper(n) == fmul(Half, R(6 + n))

----------------------------------------------------------------------------
(* The random stream (rand, rand_xoshiro) *)

NoRng   == [s |-> -1, n |-> 0]
FreeRng == [s |-> -2, n |-> 0]

\* Xoshiro256PlusPlus::seed_from_u64
seed_from_u64(seed) == [s |-> (seed * 25173 + 13849) % 65537, n |-> 0]

\* one step of the generator
Advance(r) ==
    [s |-> IF r.s < 0 THEN r.s ELSE (r.s * 75 + 74) % 65537, n |-> r.n + 1]

\* the value the generator now shows, scaled to 0 .. levels-1
Scaled(r, levels) == (r.s * levels) \div 65537

\* rng.gen::<f64>(), a value of [0, 1)
gen_f64(r) == Norm(Scaled(r, FloatLevels), FloatLevels)

\* rng.gen_range(lo..=hi)
gen_range(r, lo, hi) == lo + Scaled(r, hi - lo + 1)

\* rng.gen::<bool>()
gen_bool(r) == Scaled(r, 2) = 1

\* the values rng.gen::<f64>() can give on stream r: the one the seeded
\* generator shows, any value of the grid on the free stream
UnitDraws(r) ==
    IF r.s = FreeRng.s
    THEN {Rounded(Norm(k, SvsLevels)) : k \in 0 .. SvsLevels - 1}
    ELSE {gen_f64(r)}

Stages(k, tag) == [i \in 1 .. k |-> tag]

----------------------------------------------------------------------------
(* core/affine.rs and the 2x2 matrices of nalgebra; a matrix is            *)
(* <<m11, m12, m21, m22>>, a vector <<x, y>>                               *)

MatMul(p, q) ==
    << Add(Mul(p[1], q[1]), Mul(p[2], q[3])), Add(Mul(p[1], q[2]), Mul(p[2], q[4])),
       Add(Mul(p[3], q[1]), Mul(p[4], q[3])), Add(Mul(p[3], q[2]), Mul(p[4], q[4])) >>

MatVec(m, v) ==
    << Add(Mul(m[1], v[1]), Mul(m[2], v[2])), Add(Mul(m[3], v[1]), Mul(m[4], v[2])) >>

\* Affine::new
AffineNew(w, b) == [w |-> w, b |-> b]

\* Affine::apply
apply(t, p) ==
    LET wp == MatVec(t.w, p) IN <<Add(wp[1], t.b[1]), Add(wp[2], t.b[2])>>

\* Affine::determinant
determinant(t) == Sub(Mul(t.w[1], t.w[4]), Mul(t.w[2], t.w[3]))

\* Rotation2::new(angle), the angle in quarter turns
Rotation2(angle) ==
    LET q == TruncInt(angle) % 4
        c == IF q = 0 THEN 1 ELSE IF q = 2 THEN -1 ELSE 0
        s == IF q = 1 THEN 1 ELSE IF q = 3 THEN -1 ELSE 0
    IN  <<R(c), R(-s), R(s), R(c)>>

----------------------------------------------------------------------------
(* core/ifs.rs: the transforms and the weights *)

\* random_rotation: [rng, m]
random_rotation(r) ==
    LET r1 == Advance(r)
    IN  [rng |-> r1, m |-> Rotation2(uniform(gen_f64(r1), Zero, R(4)))]

\* random_sign_diagonal: [rng, m]
random_sign_diagonal(r) ==
    LET r1 == Advance(r)
        r2 == Advance(r1)
        d1 == IF gen_bool(r1) THEN 1 ELSE -1
        d2 == IF gen_bool(r2) THEN 1 ELSE -1
    IN  [rng |-> r2, m |-> <<R(d1), Zero, Zero, R(d2)>>]

\* the body of the loop that turns one (sigma1, sigma2) pair into a transform
MakeTransform(r, sv) ==
    LET theta == random_rotation(r)
        phi   == random_rotation(theta.rng)
        sigma == <<sv[1], Zero, Zero, sv[2]>>
        d     == random_sign_diagonal(phi.rng)
        w     == MatMul(MatMul(MatMul(theta.m, sigma), phi.m), d.m)
        r1    == Advance(d.rng)
        r2    == Advance(r1)
        b1    == uniform(gen_f64(r1), R(-1), One)
        b2    == uniform(gen_f64(r2), R(-1), One)
    IN  [rng |-> r2, t |-> AffineNew(w, <<b1, b2>>)]

\* |det| of every transform
DetWeights(ts) == [i \in 1 .. Len(ts) |-> fabs(determinant(ts[i]))]

\* the weights left as they are, not divided by their sum
NormalizeWeights_Skip(ws) == ws

\* every weight divided by the sum of all
NormalizeWeights(ws) == [i \in 1 .. Len(ws) |-> Div(ws[i], SumSeq(ws))]

\* SigmaFactorIFS::new without the assertion: both vectors cut to the shorter
SigmaFactorIFSNew_Truncate(ts, ws) ==
    LET k == IF Len(ts) < Len(ws) THEN Len(ts) ELSE Len(ws)
    IN  [panic |-> FALSE, transforms |-> SubSeq(ts, 1, k), weights |-> SubSeq(ws, 1, k)]

\* SigmaFactorIFS::new: the assertion, then the value
SigmaFactorIFSNew(ts, ws) ==
    IF Len(ts) # Len(ws)
    THEN [panic |-> TRUE, transforms |-> <<>>, weights |-> <<>>]
    ELSE [panic |-> FALSE, transforms |-> ts, weights |-> ws]

NoIfs == [panic |-> FALSE, transforms |-> <<>>, weights |-> <<>>]

\* WeightedIndex::new(&weights): fails on no weights, on a weight that is
\* negative or not a number, and on a zero total
WeightedIndexFails(ws) ==
    \/ ws = <<>>
    \/ \E i \in 1 .. Len(ws) : ~Le(Zero, ws[i])
    \/ ~Lt(Zero, SumSeq(ws))

\* the cumulative weight up to and including entry i
RECURSIVE Cumulative(_, _)
Cumulative(ws, i) ==
    IF i = 0 THEN Zero ELSE Add(Cumulative(ws, i - 1), ws[i])

\* WeightedIndex::sample: a value of [0, total), then the number of cumulative
\* weights (the last left out) that do not exceed it; indexes from 1 here
WeightedIndexSample(ws, u) ==
    LET chosen == uniform(u, Zero, SumSeq(ws))
    IN  1 + Cardinality({i \in 1 .. Len(ws) - 1 : Le(Cumulative(ws, i), chosen)})

\* SigmaFactorIFS::apply_random: [rng, idx, point]
apply_random(f, r, p) ==
    LET r1  == Advance(r)
        idx == WeightedIndexSample(f.weights, gen_f64(r1))
    IN  [rng |-> r1, idx |-> idx, point |-> apply(f.transforms[idx], p)]

----------------------------------------------------------------------------
(* core/utils.rs: the palette *)

JULIA_RED    == <<203, 60, 51>>
JULIA_GREEN  == <<56, 152, 38>>
JULIA_BLUE   == <<64, 99, 216>>
JULIA_PURPLE == <<149, 88, 178>>
Background   == <<0, 0, 0>>

\* random_julia_color: [rng, color]
random_julia_color(r) ==
    LET r1 == Advance(r)
        k  == gen_range(r1, 0, 3)
    IN  [rng   |-> r1,
         color |-> IF k = 0 THEN JULIA_RED
                   ELSE IF k = 1 THEN JULIA_GREEN
                   ELSE IF k = 2 THEN JULIA_BLUE
                   ELSE JULIA_PURPLE]

----------------------------------------------------------------------------
(* core/renderer.rs: normalize_points *)

RECURSIVE FoldMin(_, _)
FoldMin(acc, s) == IF s = <<>> THEN acc ELSE FoldMin(fmin(acc, Head(s)), Tail(s))

RECURSIVE FoldMax(_, _)
FoldMax(acc, s) == IF s = <<>> THEN acc ELSE FoldMax(fmax(acc, Head(s)), Tail(s))

Offset == R(5)

\* normalize_points with a guard: a zero-width range puts the axis at offset
NormalizeAxis_Guarded(vs, size) ==
    LET v_min == FoldMin(PosInf, vs)
        v_max == FoldMax(NegInf, vs)
        range == Sub(Sub(R(size), Offset), Offset)
    IN  [i \in 1 .. Len(vs) |->
            IF v_max = v_min THEN Offset
            ELSE Add(Div(Mul(range, Sub(vs[i], v_min)), Sub(v_max, v_min)), Offset)]

\* one axis of normalize_points; size is the width or the height
NormalizeAxis(vs, size) ==
    LET v_min == FoldMin(PosInf, vs)
        v_max == FoldMax(NegInf, vs)
        range == Sub(Sub(R(size), Offset), Offset)
    IN  [i \in 1 .. Len(vs) |->
            Add(Div(Mul(range, Sub(vs[i], v_min)), Sub(v_max, v_min)), Offset)]

----------------------------------------------------------------------------
(* The images *)

\* an image is its two dimensions and the pixels that are not zero, each as
\* <<x, y, colour>>
NoImg == [w |-> 0, h |-> 0, px |-> {}]

\* ImageBuffer::new(w, h): every pixel zero
ImageBufferNew(w, h) == [w |-> w, h |-> h, px |-> {}]

\* ImageBuffer::put_pixel
PutPixelAt(im, x, y, c) ==
    [im EXCEPT !.px = {p \in @ : ~(p[1] = x /\ p[2] = y)}
                         \cup (IF c = Background THEN {} ELSE {<<x, y, c>>})]

NoResult == [kind |-> "none", image |-> NoImg]

----------------------------------------------------------------------------
(* The configurations under test *)

Sizes    == {3, 12, U32Mod + 2}
IfsNames == {"SigmaFactorIFS", "Unknown"}
RngNames == {"Xoshiro256PlusPlus", "StdRng"}

Configs ==
    [height : Sizes, width : Sizes, npoints : 0 .. MaxPoints,
     ifs_name : IfsNames, ndims : {2, 3}, rng_name : RngNames, seed : 0 .. MaxSeed]

\* the locals of one call chain before anything has run
FreshLocals ==
    /\ svN = 0 /\ svAlpha = Zero /\ svBLower = Zero /\ svBUpper = Zero
    /\ svResult = <<>> /\ svNonEmpty = TRUE /\ transforms = <<>> /\ weights = <<>> /\ ifs = NoIfs
    /\ point = <<Zero, Zero>> /\ xs = <<>> /\ ys = <<>> /\ img = NoImg
    /\ color = Background /\ di = 0
    /\ drawLog = <<>> /\ selLog = <<>> /\ rawLog = <<>>

Init ==
    /\ cfg \in Configs
    /\ phase = "direct" /\ pc = "t_seed" /\ rng = NoRng
    /\ FreshLocals
    /\ image1 = NoImg /\ result = NoResult /\ checked = {}

----------------------------------------------------------------------------
(* tests/integration_tests.rs, method 1: the test seeds the stream itself, *)
(* calls rand_sigma_factor_ifs and then render                             *)

TestSeed ==
    /\ phase = "direct" /\ pc = "t_seed"
    /\ rng' = seed_from_u64(cfg.seed)
    /\ pc' = "ifs_n"
    /\ UNCHANGED <<callVars, svsVars, transforms, weights, ifs, genVars, imgVars, outVars, drawLog>>

----------------------------------------------------------------------------
(* core/ifs.rs: rand_sigma_factor_ifs and sample_svs *)

IfsDrawN ==
    /\ pc = "ifs_n"
    /\ LET r1 == Advance(rng)
       IN  /\ svN' = gen_range(r1, 2, 4)
           /\ rng' = r1
           /\ drawLog' = drawLog \o Stages(r1.n - rng.n, "sampler")
    /\ pc' = "ifs_alpha"
    /\ UNCHANGED <<callVars, svAlpha, svBLower, svBUpper, svResult, svNonEmpty,
                   transforms, weights, ifs, genVars, imgVars, outVars>>

IfsDrawAlpha ==
    /\ pc = "ifs_alpha"
    /\ LET r1 == Advance(rng)
       IN  /\ svAlpha' = uniform(gen_f64(r1), AlphaLower(svN), AlphaUpper(svN))
           /\ rng' = r1
           /\ drawLog' = drawLog \o Stages(r1.n - rng.n, "sampler")
    /\ pc' = "svs_start"
    /\ UNCHANGED <<callVars, svN, svBLower, svBUpper, svResult, svNonEmpty,
                   transforms, weights, ifs, genVars, imgVars, outVars>>

SvsStart ==
    /\ pc = "svs_start"
    /\ svBLower' = SvsInitLower(svAlpha, svN)
    /\ svBUpper' = svAlpha
    /\ svResult' = <<>>
    /\ pc' = IF 0 < svN - 1 THEN "svs_loop" ELSE "svs_last"
    /\ UNCHANGED <<callVars, rng, svN, svAlpha, svNonEmpty, transforms, weights, ifs,
                   genVars, imgVars, outVars, drawLog>>

SvsLoop ==
    /\ pc = "svs_loop"
    /\ LET r1 == Advance(rng)
           r2 == Advance(r1)
       IN  /\ \E u1 \in UnitDraws(r1), u2 \in UnitDraws(r2) :
                 LET p == SvsPair(svBLower, svBUpper, u1, u2)
                 IN  /\ svResult' = Append(svResult, <<p.sigma1, p.sigma2>>)
                     /\ svBLower' = p.b_lower
                     /\ svBUpper' = p.b_upper
                     /\ svNonEmpty' =
                          (/\ svNonEmpty
                           /\ Le(Sigma1Lower(svBLower), Sigma1Upper(svBUpper))
                           /\ Le(Sigma2Lower(Sub(svBLower, p.sigma1)),
                                 Sigma2Upper(p.sigma1, Sub(svBUpper, p.sigma1))))
           /\ rng' = r2
           /\ drawLog' = drawLog \o Stages(r2.n - rng.n, "sampler")
    /\ pc' = IF Len(svResult) + 1 < svN - 1 THEN "svs_loop" ELSE "svs_last"
    /\ UNCHANGED <<callVars, svN, svAlpha, transforms, weights, ifs, genVars, imgVars, outVars>>

\* sample_svs that does not push the last pair
SvsFinish_NoPush ==
    /\ pc = "svs_last"
    /\ LET r1 == Advance(rng)
       IN  /\ svResult' = svResult
           /\ rng' = r1
           /\ drawLog' = drawLog \o Stages(r1.n - rng.n, "sampler")
    /\ svNonEmpty' = (svNonEmpty /\ Le(LastSigma2Lower(svBUpper), LastSigma2Upper(svBUpper)))
    /\ pc' = IF phase \in {"svs", "svs_f64"} THEN "done" ELSE "ifs_transform"
    /\ UNCHANGED <<callVars, svN, svAlpha, svBLower, svBUpper, transforms, weights, ifs,
                   genVars, imgVars, outVars>>

SvsFinish ==
    /\ pc = "svs_last"
    /\ LET r1 == Advance(rng)
       IN  /\ \E u \in UnitDraws(r1) :
                 svResult' = Append(svResult, SvsLast(svBUpper, u))
           /\ rng' = r1
           /\ drawLog' = drawLog \o Stages(r1.n - rng.n, "sampler")
    /\ svNonEmpty' = (svNonEmpty /\ Le(LastSigma2Lower(svBUpper), LastSigma2Upper(svBUpper)))
    /\ pc' = IF phase \in {"svs", "svs_f64"} THEN "done" ELSE "ifs_transform"
    /\ UNCHANGED <<callVars, svN, svAlpha, svBLower, svBUpper, transforms, weights, ifs,
                   genVars, imgVars, outVars>>

IfsTransform ==
    /\ pc = "ifs_transform"
    /\ Len(transforms) < Len(svResult)
    /\ LET m == MakeTransform(rng, svResult[Len(transforms) + 1])
       IN  /\ transforms' = Append(transforms, m.t)
           /\ rng' = m.rng
           /\ drawLog' = drawLog \o Stages(m.rng.n - rng.n, "sampler")
    /\ UNCHANGED <<callVars, pc, svsVars, weights, ifs, genVars, imgVars, outVars>>

IfsWeights ==
    /\ pc = "ifs_transform"
    /\ Len(transforms) >= Len(svResult)
    /\ LET w == NormalizeWeights(DetWeights(transforms))
           f == SigmaFactorIFSNew(transforms, w)
       IN  /\ weights' = w
           /\ ifs' = f
           /\ pc' = IF f.panic THEN "panic" ELSE "render"
    /\ UNCHANGED <<callVars, rng, svsVars, transforms, genVars, imgVars, outVars, drawLog>>

----------------------------------------------------------------------------
(* core/renderer.rs: generate_points and render *)

\* generate_points that also records the starting point
GenEnter_EmitStart ==
    /\ pc = "render"
    /\ point' = <<Zero, Zero>>
    /\ xs' = <<Zero>>
    /\ ys' = <<Zero>>
    /\ pc' = "gen"
    /\ UNCHANGED <<callVars, rng, svsVars, transforms, weights, ifs, selLog, rawLog,
                   imgVars, outVars, drawLog>>

GenEnter ==
    /\ pc = "render"
    /\ point' = <<Zero, Zero>>
    /\ xs' = <<>>
    /\ ys' = <<>>
    /\ pc' = "gen"
    /\ UNCHANGED <<callVars, rng, svsVars, transforms, weights, ifs, selLog, rawLog,
                   imgVars, outVars, drawLog>>

\* generate_points that applies every map to the starting point
GenStep_FromStart ==
    /\ pc = "gen"
    /\ Len(xs) < cfg.npoints
    /\ IF WeightedIndexFails(ifs.weights)
       THEN /\ pc' = "panic"
            /\ UNCHANGED <<rng, genVars, drawLog>>
       ELSE LET a == apply_random(ifs, rng, point)
            IN  /\ rng' = a.rng
                /\ point' = point
                /\ xs' = Append(xs, a.point[1])
                /\ ys' = Append(ys, a.point[2])
                /\ drawLog' = drawLog \o Stages(a.rng.n - rng.n, "select")
                /\ selLog' = Append(selLog, a.idx)
                /\ rawLog' = Append(rawLog, a.point)
                /\ pc' = "gen"
    /\ UNCHANGED <<callVars, svsVars, transforms, weights, ifs, imgVars, outVars>>

GenStep ==
    /\ pc = "gen"
    /\ Len(xs) < cfg.npoints
    /\ IF WeightedIndexFails(ifs.weights)
       THEN /\ pc' = "panic"
            /\ UNCHANGED <<rng, genVars, drawLog>>
       ELSE LET a == apply_random(ifs, rng, point)
            IN  /\ rng' = a.rng
                /\ point' = a.point
                /\ xs' = Append(xs, a.point[1])
                /\ ys' = Append(ys, a.point[2])
                /\ drawLog' = drawLog \o Stages(a.rng.n - rng.n, "select")
                /\ selLog' = Append(selLog, a.idx)
                /\ rawLog' = Append(rawLog, a.point)
                /\ pc' = "gen"
    /\ UNCHANGED <<callVars, svsVars, transforms, weights, ifs, imgVars, outVars>>

GenNormalize ==
    /\ pc = "gen"
    /\ Len(xs) >= cfg.npoints
    /\ xs' = NormalizeAxis(xs, cfg.width)
    /\ ys' = NormalizeAxis(ys, cfg.height)
    /\ pc' = "image"
    /\ UNCHANGED <<callVars, rng, svsVars, transforms, weights, ifs, point, selLog, rawLog,
                   imgVars, outVars, drawLog>>

ImageNew ==
    /\ pc = "image"
    /\ img' = ImageBufferNew(UsizeAsU32(cfg.width), UsizeAsU32(cfg.height))
    /\ pc' = "color"
    /\ UNCHANGED <<callVars, rng, svsVars, transforms, weights, ifs, genVars, color, di,
                   outVars, drawLog>>

PickColor ==
    /\ pc = "color"
    /\ LET c == random_julia_color(rng)
       IN  /\ rng' = c.rng
           /\ color' = c.color
           /\ drawLog' = drawLog \o Stages(c.rng.n - rng.n, "color")
    /\ di' = 0
    /\ pc' = "draw"
    /\ UNCHANGED <<callVars, svsVars, transforms, weights, ifs, genVars, img, outVars>>

\* render that draws a colour for every point
DrawPoint_ColorPerPoint ==
    /\ pc = "draw"
    /\ di < Len(xs)
    /\ LET x == F64AsU32(xs[di + 1])
           y == F64AsU32(ys[di + 1])
           c == random_julia_color(rng)
       IN  /\ img' = IF x < UsizeAsU32(cfg.width) /\ y < UsizeAsU32(cfg.height)
                     THEN PutPixelAt(img, x, y, c.color)
                     ELSE img
           /\ rng' = c.rng
           /\ color' = c.color
           /\ drawLog' = drawLog \o Stages(c.rng.n - rng.n, "color")
    /\ di' = di + 1
    /\ UNCHANGED <<callVars, pc, svsVars, transforms, weights, ifs, genVars, outVars>>

DrawPoint ==
    /\ pc = "draw"
    /\ di < Len(xs)
    /\ LET x == F64AsU32(xs[di + 1])
           y == F64AsU32(ys[di + 1])
       IN  img' = IF x < UsizeAsU32(cfg.width) /\ y < UsizeAsU32(cfg.height)
                  THEN PutPixelAt(img, x, y, color)
                  ELSE img
    /\ di' = di + 1
    /\ UNCHANGED <<callVars, pc, rng, svsVars, transforms, weights, ifs, genVars, color,
                   outVars, drawLog>>

\* render returns to the test: image1 is kept, the test goes on to method 2,
\* render_from_config, whose locals are fresh
TestRenderReturn ==
    /\ phase = "direct" /\ pc = "draw"
    /\ di >= Len(xs)
    /\ image1' = img
    /\ phase' = "config"
    /\ pc' = "rfc_ifs_name"
    /\ rng' = NoRng
    /\ svN' = 0 /\ svAlpha' = Zero /\ svBLower' = Zero /\ svBUpper' = Zero
    /\ svResult' = <<>> /\ svNonEmpty' = TRUE /\ transforms' = <<>> /\ weights' = <<>>
    /\ ifs' = NoIfs
    /\ point' = <<Zero, Zero>> /\ xs' = <<>> /\ ys' = <<>> /\ img' = NoImg
    /\ color' = Background /\ di' = 0
    /\ drawLog' = <<>> /\ selLog' = <<>> /\ rawLog' = <<>>
    /\ UNCHANGED <<cfg, result, checked>>

----------------------------------------------------------------------------
(* core/renderer.rs: render_from_config *)

ConfigError == [kind |-> "ConfigError", image |-> NoImg]

RfcCheckIfsName ==
    /\ phase = "config" /\ pc = "rfc_ifs_name"
    /\ checked' = checked \cup {"ifs_name"}
    /\ IF cfg.ifs_name # "SigmaFactorIFS"
       THEN result' = ConfigError /\ pc' = "done"
       ELSE result' = result /\ pc' = "rfc_ndims"
    /\ UNCHANGED <<callVars, rng, svsVars, transforms, weights, ifs, genVars, imgVars,
                   image1, drawLog>>

\* the dimension check letting 3 through
RfcCheckNdims_AtMost3 ==
    /\ phase = "config" /\ pc = "rfc_ndims"
    /\ checked' = checked \cup {"ndims"}
    /\ IF cfg.ndims \notin {2, 3}
       THEN result' = ConfigError /\ pc' = "done"
       ELSE result' = result /\ pc' = "rfc_rng_name"
    /\ UNCHANGED <<callVars, rng, svsVars, transforms, weights, ifs, genVars, imgVars,
                   image1, drawLog>>

RfcCheckNdims ==
    /\ phase = "config" /\ pc = "rfc_ndims"
    /\ checked' = checked \cup {"ndims"}
    /\ IF cfg.ndims # 2
       THEN result' = ConfigError /\ pc' = "done"
       ELSE result' = result /\ pc' = "rfc_rng_name"
    /\ UNCHANGED <<callVars, rng, svsVars, transforms, weights, ifs, genVars, imgVars,
                   image1, drawLog>>

\* the stream seeded before its name is looked at
RfcCheckRngName_SeedFirst ==
    /\ phase = "config" /\ pc = "rfc_rng_name"
    /\ checked' = checked \cup {"rng_name"}
    /\ rng' = seed_from_u64(cfg.seed)
    /\ IF cfg.rng_name # "Xoshiro256PlusPlus"
       THEN result' = ConfigError /\ pc' = "done"
       ELSE result' = result /\ pc' = "rfc_seed"
    /\ UNCHANGED <<callVars, svsVars, transforms, weights, ifs, genVars, imgVars,
                   image1, drawLog>>

RfcCheckRngName ==
    /\ phase = "config" /\ pc = "rfc_rng_name"
    /\ checked' = checked \cup {"rng_name"}
    /\ IF cfg.rng_name # "Xoshiro256PlusPlus"
       THEN result' = ConfigError /\ pc' = "done"
       ELSE result' = result /\ pc' = "rfc_seed"
    /\ UNCHANGED <<callVars, rng, svsVars, transforms, weights, ifs, genVars, imgVars,
                   image1, drawLog>>

\* the stream seeded with the default seed of Config::new, not the one given
RfcSeed_DefaultSeed ==
    /\ phase = "config" /\ pc = "rfc_seed"
    /\ rng' = seed_from_u64(42)
    /\ pc' = "ifs_n"
    /\ UNCHANGED <<callVars, svsVars, transforms, weights, ifs, genVars, imgVars, outVars, drawLog>>

\* the matching arm seeds the stream; rand_sigma_factor_ifs is called next
RfcSeed ==
    /\ phase = "config" /\ pc = "rfc_seed"
    /\ rng' = seed_from_u64(cfg.seed)
    /\ pc' = "ifs_n"
    /\ UNCHANGED <<callVars, svsVars, transforms, weights, ifs, genVars, imgVars, outVars, drawLog>>

\* Ok(render(rng, &ifs, config))
RfcRenderReturn ==
    /\ phase = "config" /\ pc = "draw"
    /\ di >= Len(xs)
    /\ result' = [kind |-> "Ok", image |-> img]
    /\ pc' = "done"
    /\ UNCHANGED <<callVars, rng, svsVars, transforms, weights, ifs, genVars, imgVars,
                   image1, checked, drawLog>>

----------------------------------------------------------------------------
(* The specifications *)

Next ==
    \/ TestSeed
    \/ IfsDrawN \/ IfsDrawAlpha \/ SvsStart \/ SvsLoop \/ SvsFinish
    \/ IfsTransform \/ IfsWeights
    \/ GenEnter \/ GenStep \/ GenNormalize \/ ImageNew \/ PickColor \/ DrawPoint
    \/ TestRenderReturn
    \/ RfcCheckIfsName \/ RfcCheckNdims \/ RfcCheckRngName \/ RfcSeed
    \/ RfcRenderReturn

Spec == Init /\ [][Next]_vars

\* sample_svs(rng, alpha, n) called on its own: n in 2..4, alpha on a grid of
\* [0.5*(5+n), 0.5*(6+n)] with both ends, the stream free
SvsAlphas(n) ==
    {uniform(Norm(k, SvsLevels), AlphaLower(n), AlphaUpper(n)) : k \in 0 .. SvsLevels}

SvsInit ==
    /\ cfg = [height |-> 0, width |-> 0, npoints |-> 0, ifs_name |-> "",
              ndims |-> 0, rng_name |-> "", seed |-> 0]
    /\ phase = "svs" /\ pc = "svs_start" /\ rng = FreeRng
    /\ svN \in {2, 3, 4}
    /\ svAlpha \in SvsAlphas(svN)
    /\ svBLower = Zero /\ svBUpper = Zero /\ svResult = <<>> /\ svNonEmpty = TRUE
    /\ transforms = <<>> /\ weights = <<>> /\ ifs = NoIfs
    /\ point = <<Zero, Zero>> /\ xs = <<>> /\ ys = <<>> /\ img = NoImg
    /\ color = Background /\ di = 0
    /\ drawLog = <<>> /\ selLog = <<>> /\ rawLog = <<>>
    /\ image1 = NoImg /\ result = NoResult /\ checked = {}

SvsNext == SvsStart \/ SvsLoop \/ SvsFinish

SpecSvs == SvsInit /\ [][SvsNext]_vars

\* the same call in floating point: alpha and the draws are representable
\* values, every operation of sample_svs rounds
SvsF64Init ==
    /\ cfg = [height |-> 0, width |-> 0, npoints |-> 0, ifs_name |-> "",
              ndims |-> 0, rng_name |-> "", seed |-> 0]
    /\ phase = "svs_f64" /\ pc = "svs_start" /\ rng = FreeRng
    /\ svN \in {2, 3, 4}
    /\ svAlpha \in SvsAlphas(svN)
    /\ svBLower = Zero /\ svBUpper = Zero /\ svResult = <<>> /\ svNonEmpty = TRUE
    /\ transforms = <<>> /\ weights = <<>> /\ ifs = NoIfs
    /\ point = <<Zero, Zero>> /\ xs = <<>> /\ ys = <<>> /\ img = NoImg
    /\ color = Background /\ di = 0
    /\ drawLog = <<>> /\ selLog = <<>> /\ rawLog = <<>>
    /\ image1 = NoImg /\ result = NoResult /\ checked = {}

SpecSvsF64 == SvsF64Init /\ [][SvsNext]_vars

\* SigmaFactorIFS::new(transforms, weights) called on its own, with any two
\* vectors of at most MaxLen elements, of equal length or not
SeqsUpTo(S, n) == UNION {[1 .. k -> S] : k \in 0 .. n}

NewMaps ==
    {AffineNew(<<One, Zero, Zero, One>>, <<Zero, Zero>>),
     AffineNew(<<Half, Zero, Zero, Half>>, <<One, Zero>>)}

NewWeights == {Zero, Half, One}

NewInit ==
    /\ cfg = [height |-> 0, width |-> 0, npoints |-> 0, ifs_name |-> "",
              ndims |-> 0, rng_name |-> "", seed |-> 0]
    /\ phase = "new" /\ pc = "new_call" /\ rng = NoRng
    /\ transforms \in SeqsUpTo(NewMaps, MaxLen)
    /\ weights \in SeqsUpTo(NewWeights, MaxLen)
    /\ ifs = NoIfs
    /\ svN = 0 /\ svAlpha = Zero /\ svBLower = Zero /\ svBUpper = Zero
    /\ svResult = <<>> /\ svNonEmpty = TRUE
    /\ point = <<Zero, Zero>> /\ xs = <<>> /\ ys = <<>> /\ img = NoImg
    /\ color = Background /\ di = 0
    /\ drawLog = <<>> /\ selLog = <<>> /\ rawLog = <<>>
    /\ image1 = NoImg /\ result = NoResult /\ checked = {}

NewCall ==
    /\ phase = "new" /\ pc = "new_call"
    /\ LET f == SigmaFactorIFSNew(transforms, weights)
       IN  /\ ifs' = f
           /\ pc' = IF f.panic THEN "panic" ELSE "done"
    /\ UNCHANGED <<callVars, rng, svsVars, transforms, weights, genVars, imgVars,
                   outVars, drawLog>>

SpecNew == NewInit /\ [][NewCall]_vars

----------------------------------------------------------------------------
(* Properties *)

ConfigValid ==
    /\ cfg.ifs_name = "SigmaFactorIFS"
    /\ cfg.ndims = 2
    /\ cfg.rng_name = "Xoshiro256PlusPlus"

AllChecks == {"ifs_name", "ndims", "rng_name"}

InRender == pc \in {"render", "gen", "image", "color", "draw"}

Returned == phase = "config" /\ pc = "done"

CountTag(log, tag) == Cardinality({i \in DOMAIN log : log[i] = tag})

StageRank(tag) == IF tag = "sampler" THEN 1 ELSE IF tag = "select" THEN 2 ELSE 3

\* C1: render_from_config returns the configuration error exactly when
\* ifs_name is not "SigmaFactorIFS", or ndims is not 2, or rng_name is not
\* "Xoshiro256PlusPlus"; on every other Config it returns Ok with an image and
\* never aborts.
C1_ConfigErrorIff ==
    /\ Returned => /\ (result.kind = "ConfigError") <=> ~ConfigValid
                   /\ ConfigValid => (result.kind = "Ok" /\ result.image = img
                                      /\ img # NoImg)
    /\ (phase = "config" /\ ConfigValid) => pc # "panic"

C1_Witness ==
    /\ Returned /\ result.kind = "ConfigError"
    /\ cfg.ndims = 3 /\ cfg.ifs_name = "SigmaFactorIFS"
    /\ cfg.rng_name = "Xoshiro256PlusPlus"

\* C2: in render_from_config the stream is seeded, the IFS built, a value
\* drawn, a point generated or a canvas allocated only after the checks of
\* ifs_name, ndims and rng_name have all completed and passed; when the
\* configuration is rejected none of these has happened.
C2_ValidationFirst ==
    phase = "config" =>
        /\ (rng # NoRng \/ svResult # <<>> \/ transforms # <<>> \/ ifs # NoIfs
              \/ drawLog # <<>> \/ rawLog # <<>> \/ xs # <<>> \/ img # NoImg)
             => (checked = AllChecks /\ ConfigValid)
        /\ result.kind = "ConfigError"
             => (rng = NoRng /\ svResult = <<>> /\ transforms = <<>> /\ weights = <<>> /\ ifs = NoIfs
                 /\ drawLog = <<>> /\ rawLog = <<>> /\ xs = <<>> /\ ys = <<>>
                 /\ img = NoImg)

C2_Witness ==
    /\ Returned /\ result.kind = "ConfigError"
    /\ checked = AllChecks /\ cfg.rng_name = "StdRng" /\ rng = NoRng

\* C3: for a Config that render_from_config accepts, the image it returns is
\* the image that seeding the stream, calling rand_sigma_factor_ifs and then
\* render produced from the same Config: same dimensions, same pixels.
C3_SameImage ==
    (Returned /\ ConfigValid) => (result.kind = "Ok" /\ result.image = image1)

C3_Witness ==
    /\ Returned /\ result.kind = "Ok"
    /\ cfg.npoints >= 2 /\ Cardinality(result.image.px) >= 2

\* C4: the IFS rand_sigma_factor_ifs returns has between 2 and 4 transforms
\* and as many weights as transforms; its construction never aborts.
C4_TransformCount ==
    /\ pc # "panic"
    /\ ifs # NoIfs => /\ Len(ifs.transforms) \in 2 .. 4
                      /\ Len(ifs.weights) = Len(ifs.transforms)

C4_Witness == ifs # NoIfs /\ Len(ifs.transforms) = 4 /\ Len(ifs.weights) = 4

\* C5: every weight of the IFS is >= 0, the weights sum to 1, and each weight
\* times the sum of |det(W_j)| over all maps is |det(W_i)|.
C5_Weights ==
    ifs # NoIfs =>
        LET dets == [j \in 1 .. Len(ifs.transforms) |->
                        fabs(determinant(ifs.transforms[j]))]
        IN  /\ \A i \in 1 .. Len(ifs.weights) :
                  /\ Le(Zero, ifs.weights[i])
                  /\ i <= Len(dets)
                  /\ Mul(ifs.weights[i], SumSeq(dets)) = dets[i]
            /\ SumSeq(ifs.weights) = One

C5_Witness ==
    /\ ifs # NoIfs /\ Len(ifs.weights) = 3
    /\ \E i \in 1 .. 3 : ifs.weights[i] = Zero
    /\ \E i \in 1 .. 3 : Lt(Zero, ifs.weights[i]) /\ Lt(ifs.weights[i], One)

\* C6: every (sigma1, sigma2) pair sample_svs returns, the last one included,
\* has sigma1 >= 0 and sigma2 >= 0, for n in 2..4 and alpha in
\* [0.5*(5+n), 0.5*(6+n)].
C6_SigmaNonNegative ==
    \A i \in 1 .. Len(svResult) :
        Le(Zero, svResult[i][1]) /\ Le(Zero, svResult[i][2])

C6_Witness ==
    /\ phase = "svs" /\ pc = "done" /\ svN = 4 /\ Len(svResult) = 4
    /\ svResult[4][2] = Zero /\ Lt(Zero, svResult[4][1])

\* C7: the image render returns is config.width wide and config.height high.
C7_ImageSize ==
    (pc = "draw" \/ (Returned /\ result.kind = "Ok"))
        => (img.w = cfg.width /\ img.h = cfg.height)

\* C8: with npoints = 0 the point cloud generate_points returns is empty,
\* render does not abort and no pixel of the canvas is ever set.
C8_NoPoints ==
    cfg.npoints = 0 =>
        /\ pc # "panic"
        /\ xs = <<>> /\ ys = <<>> /\ rawLog = <<>>
        /\ img.px = {} /\ image1.px = {} /\ result.image.px = {}

C8_Witness ==
    /\ cfg.npoints = 0 /\ Returned /\ result.kind = "Ok"
    /\ result.image.w = 12 /\ result.image.px = {}

\* C9: generate_points records one point per iteration, the first the image
\* of (0,0) and every other the image of the point before it under the map
\* selected at that iteration, with one selection draw per point; once the
\* loop is over the cloud has exactly npoints points.
C9_Orbit ==
    (InRender /\ pc # "render") =>
        /\ Len(rawLog) = Len(selLog)
        /\ CountTag(drawLog, "select") = Len(rawLog)
        /\ Len(xs) = Len(rawLog) /\ Len(ys) = Len(rawLog)
        /\ \A i \in 1 .. Len(rawLog) :
              /\ selLog[i] \in 1 .. Len(ifs.transforms)
              /\ rawLog[i] = apply(ifs.transforms[selLog[i]],
                                   IF i = 1 THEN <<Zero, Zero>> ELSE rawLog[i - 1])
        /\ pc \in {"image", "color", "draw"} => Len(xs) = cfg.npoints

C9_Witness ==
    /\ pc = "image" /\ Len(xs) = 2 /\ cfg.npoints = 2
    /\ selLog[1] # selLog[2] /\ rawLog[2] # rawLog[1]

\* C10: the draws on the stream come in stage order: the sampler's draws,
\* then the selection draws, then the colour draw; the colour is drawn once,
\* after all npoints selections, and is there once render draws the points.
C10_DrawOrder ==
    /\ \A i \in DOMAIN drawLog : \A j \in DOMAIN drawLog :
          i < j => StageRank(drawLog[i]) <= StageRank(drawLog[j])
    /\ CountTag(drawLog, "color") <= 1
    /\ CountTag(drawLog, "color") = 1
          => CountTag(drawLog, "select") = cfg.npoints
    /\ CountTag(drawLog, "select") > 0 => CountTag(drawLog, "sampler") > 0
    /\ (pc = "draw" \/ (Returned /\ result.kind = "Ok"))
          => (CountTag(drawLog, "color") = 1 /\ CountTag(drawLog, "sampler") > 0)

C10_Witness ==
    /\ Returned /\ result.kind = "Ok" /\ cfg.npoints = 2
    /\ CountTag(drawLog, "select") = 2
    /\ drawLog[Len(drawLog)] = "color"

\* the pixel index of a coordinate truncated toward zero lies in 0 .. size-1
IndexInside(v, size) == IsFinite(v) /\ TruncInt(v) \in 0 .. size - 1

\* the points drawn so far whose truncated coordinates lie inside the canvas
DrawnInside ==
    {i \in 1 .. di : IndexInside(xs[i], cfg.width) /\ IndexInside(ys[i], cfg.height)}

\* C11: while render draws, the pixels set on the canvas are exactly the
\* truncated coordinates of the points drawn so far that lie within
\* [0, width) x [0, height), each in the one chosen colour; a point with a
\* negative or not-a-number coordinate, or one beyond the canvas, sets
\* nothing.  Stated for widths and heights that fit a u32.
C11_PixelIff ==
    (pc = "draw" /\ cfg.width < U32Mod /\ cfg.height < U32Mod) =>
        img.px = {<<TruncInt(xs[i]), TruncInt(ys[i]), color>> : i \in DrawnInside}

\* the raw coordinates generate_points handed to normalize_points
RawAxis(k) == [i \in 1 .. Len(rawLog) |-> rawLog[i][k]]

\* normalize_points has run on the cloud of this call
Normalized == pc \in {"image", "color", "draw"} \/ (Returned /\ result.kind = "Ok")

\* the raw cloud has x_max > x_min and y_max > y_min
Spread ==
    /\ Lt(FoldMin(PosInf, RawAxis(1)), FoldMax(NegInf, RawAxis(1)))
    /\ Lt(FoldMin(PosInf, RawAxis(2)), FoldMax(NegInf, RawAxis(2)))

\* one axis of the claim: every value within [offset, size - offset], the
\* raw minimum at offset and the raw maximum at size - offset
AxisInRange(raw, out, size) ==
    \A i \in 1 .. Len(out) :
        /\ Le(Offset, out[i]) /\ Le(out[i], Sub(R(size), Offset))
        /\ raw[i] = FoldMin(PosInf, raw) => out[i] = Offset
        /\ raw[i] = FoldMax(NegInf, raw) => out[i] = Sub(R(size), Offset)

\* C12: for a cloud with x_max > x_min and y_max > y_min, normalize_points
\* maps every x into [offset, width - offset] and every y into
\* [offset, height - offset] with offset = 5, the minimum of an axis to
\* offset and its maximum to size - offset, each axis by its own size.
C12_NormalizeRange ==
    (Normalized /\ Spread) =>
        /\ AxisInRange(RawAxis(1), xs, cfg.width)
        /\ AxisInRange(RawAxis(2), ys, cfg.height)

\* all points of the raw cloud share their k-th coordinate
Degenerate(k) ==
    Len(rawLog) >= 1 /\ FoldMin(PosInf, RawAxis(k)) = FoldMax(NegInf, RawAxis(k))

\* C13: when all generated points share one x value (or one y value), as for
\* npoints = 1, every normalized coordinate on that axis is the not-a-number
\* value, it is still that value while render truncates and draws the points,
\* and render neither aborts nor returns an error.
C13_DegenerateNaN ==
    /\ (Normalized /\ Degenerate(1)) =>
          /\ \A i \in 1 .. Len(xs) : IsNaN(xs[i])
          /\ pc # "panic" /\ result.kind \in {"none", "Ok"}
    /\ (Normalized /\ Degenerate(2)) =>
          /\ \A i \in 1 .. Len(ys) : IsNaN(ys[i])
          /\ pc # "panic" /\ result.kind \in {"none", "Ok"}
    /\ (Normalized /\ cfg.npoints = 1) => (Degenerate(1) /\ Degenerate(2))

\* render_from_config has returned Ok for one point, which went through the
\* truncation step as (NaN, NaN)
C13_Witness ==
    /\ Returned /\ result.kind = "Ok" /\ cfg.npoints = 1
    /\ di = 1 /\ IsNaN(xs[1]) /\ IsNaN(ys[1])
    /\ cfg.width = 12 /\ cfg.height = 12

\* C14: SigmaFactorIFS::new aborts exactly when the number of transforms
\* differs from the number of weights; when it returns, the value holds the
\* two vectors whole, so it has as many weights as transforms; when it
\* aborts there is no value, truncated or otherwise.
C14_NewAsserts ==
    /\ pc = "panic" <=> (pc # "new_call" /\ Len(transforms) # Len(weights))
    /\ pc = "done" =>
          /\ ~ifs.panic
          /\ ifs.transforms = transforms /\ ifs.weights = weights
          /\ Len(ifs.transforms) = Len(ifs.weights)
    /\ pc = "panic" => (ifs.panic /\ ifs.transforms = <<>> /\ ifs.weights = <<>>)

\* new has aborted on two transforms and three weights
C14_Witness ==
    /\ phase = "new" /\ pc = "panic"
    /\ Len(transforms) = 2 /\ Len(weights) = 3

\* sum of sigma1 + 2*sigma2 over the pairs
RECURSIVE SigmaFactorSum(_)
SigmaFactorSum(pairs) ==
    IF pairs = <<>> THEN Zero
    ELSE Add(Add(Head(pairs)[1], Mul(R(2), Head(pairs)[2])), SigmaFactorSum(Tail(pairs)))

\* sample_svs has returned its n pairs
SvsReturned == phase \in {"svs", "svs_f64"} /\ pc = "done" /\ Len(svResult) = svN

\* C15 as stated: the n pairs sample_svs returns satisfy the sigma-factor
\* equation exactly, the sum over the pairs of sigma1 + 2*sigma2 is alpha.
C15_SigmaFactorEquation ==
    SvsReturned => SigmaFactorSum(svResult) = svAlpha

\* the roundings that separate the sum from alpha: the two subtractions from
\* b_upper for each of the first n-1 pairs and the one of the last pair, each
\* within half a unit in the last place of a value below 8
RoundingBudget(n) == Norm((2 * n - 1) * 4, Pow2(MantBits))

\* C15, amended: the sum over the n pairs of sigma1 + 2*sigma2 equals alpha
\* up to the rounding of the 2n-1 subtractions that took the pairs from the
\* budget: it differs from alpha by at most (2n-1) * 2^(2 - MantBits).
C15_SigmaFactorWithinRounding ==
    SvsReturned =>
        Le(fabs(Sub(SigmaFactorSum(svResult), svAlpha)), RoundingBudget(svN))

\* sample_svs has returned three pairs in floating point, none with
\* sigma2 = 0, whose sum is not alpha
C15_Witness ==
    /\ phase = "svs_f64" /\ SvsReturned /\ svN = 3
    /\ \A i \in 1 .. 3 : Lt(Zero, svResult[i][2])
    /\ SigmaFactorSum(svResult) # svAlpha

\* C16: every interval sample_svs draws from is non-empty (its lower bound
\* does not exceed its upper bound), every pair it returns, the last one
\* included, has sigma2 <= sigma1 <= 1, and of the pairs returned at least
\* one has sigma1 * sigma2 # 0, the |det W| the weights are made of, so that
\* their sum is not zero.
C16_IntervalsAndOrder ==
    /\ svNonEmpty
    /\ \A i \in 1 .. Len(svResult) :
          Le(svResult[i][2], svResult[i][1]) /\ Le(svResult[i][1], One)
    /\ SvsReturned =>
          \E i \in 1 .. Len(svResult) : Mul(svResult[i][1], svResult[i][2]) # Zero

====
